---- MODULE Spec2Model ----
(***************************************************************************)
(* GOST R 7.0.5-2008 bibliography formatter.                               *)
(*                                                                         *)
(* Python str values are sequences of Unicode code points, so that string  *)
(* comparison (the sort key of GOSTCitationFormatter.format) is the        *)
(* lexicographic order on code points and str(int) is a real conversion.   *)
(***************************************************************************)
EXTENDS Integers, Sequences, FiniteSets, TLC

VARIABLES
    pc,               \* position of the caller: "input", "rejected", "ready", "failed", "formatted"
    models,           \* the list of validated records handed to GOSTCitationFormatter
    last,             \* the record construction that raised ValidationError, if any
    err,              \* the exception that ended the run, "none" if none
    formatted_items,  \* GOSTCitationFormatter.formatted_items
    result,           \* the list returned by GOSTCitationFormatter.format()
    resub             \* repeated substitute() calls made on one formatter after construction

vars == <<pc, models, last, err, formatted_items, result, resub>>

(***************************************************************************)
(* Bounds of the model.                                                    *)
(***************************************************************************)
MaxModels == 3   \* longest input list
MaxCalls == 2    \* repeated substitute() calls on one formatter

(***************************************************************************)
(* Python values: str, int and None.                                       *)
(***************************************************************************)
PStr(s) == [t |-> "str", s |-> s]
PInt(n) == [t |-> "int", n |-> n]
PNone == [t |-> "NoneType"]

\* bool(v) for the values above
Truthy(v) ==
    CASE v.t = "str" -> Len(v.s) > 0
      [] v.t = "int" -> v.n # 0
      [] OTHER -> FALSE

RECURSIVE Digits(_)
\* decimal digits of n >= 0, most significant first
Digits(n) ==
    IF n < 10 THEN <<48 + n>> ELSE Digits(n \div 10) \o <<48 + (n % 10)>>

\* "None"
NoneText == <<78, 111, 110, 101>>

\* str(v)
Str(v) ==
    CASE v.t = "str" -> v.s
      [] v.t = "int" -> IF v.n < 0 THEN <<45>> \o Digits(-v.n) ELSE Digits(v.n)
      [] OTHER -> NoneText

\* a < b for str: at the first position where they differ a has the smaller
\* code point, or a is a proper prefix of b
LexLess(a, b) ==
    LET differ == {k \in 1..Len(a) : k > Len(b) \/ a[k] # b[k]}
    IN  IF differ = {} THEN Len(a) < Len(b)
        ELSE LET k == CHOOSE x \in differ : \A y \in differ : x <= y
             IN  k <= Len(b) /\ a[k] < b[k]

\* sub in s
Contains(s, sub) ==
    \E i \in 1..(Len(s) - Len(sub) + 1) : SubSeq(s, i, i + Len(sub) - 1) = sub

\* s.startswith(p)
StartsWith(s, p) == Len(p) <= Len(s) /\ SubSeq(s, 1, Len(p)) = p

RECURSIVE Split(_, _)
\* s.split(sep) for a one-character separator sep
Split(s, sep) ==
    IF \A i \in 1..Len(s) : s[i] # sep THEN <<s>>
    ELSE LET k == CHOOSE i \in 1..Len(s) : s[i] = sep /\ \A j \in 1..(i - 1) : s[j] # sep
         IN  <<SubSeq(s, 1, k - 1)>> \o Split(SubSeq(s, k + 1, Len(s)), sep)

(***************************************************************************)
(* string.Template: "$$" is an escaped "$", "$name" and "${name}" are      *)
(* placeholders whose name is the longest ASCII identifier at that place,  *)
(* and any other "$" is invalid.                                           *)
(***************************************************************************)
IsIdStart(c) == c = 95 \/ c \in 65..90 \/ c \in 97..122
IsIdChar(c) == IsIdStart(c) \/ c \in 48..57

\* first position at or after i that does not continue an identifier
IdEnd(t, i) ==
    LET stops == {j \in i..Len(t) : ~IsIdChar(t[j])}
    IN  IF stops = {} THEN Len(t) + 1 ELSE CHOOSE j \in stops : \A k \in stops : j <= k

\* first position at or after i that holds the delimiter "$"
NextDollar(t, i) ==
    LET dollars == {j \in i..Len(t) : t[j] = 36}
    IN  IF dollars = {} THEN Len(t) + 1 ELSE CHOOSE j \in dollars : \A k \in dollars : j <= k

RECURSIVE Tokenize(_, _)
\* the tokens of template text t from position i on: literal text, "$$",
\* "$name", "${name}" and any other "$", which is invalid
Tokenize(t, i) ==
    IF i > Len(t) THEN <<>>
    ELSE IF t[i] # 36
        THEN LET j == NextDollar(t, i)
             IN  <<[k |-> "lit", s |-> SubSeq(t, i, j - 1)]>> \o Tokenize(t, j)
    ELSE IF i + 1 <= Len(t) /\ t[i + 1] = 36
        THEN <<[k |-> "lit", s |-> <<36>>]>> \o Tokenize(t, i + 2)
    ELSE IF i + 1 <= Len(t) /\ IsIdStart(t[i + 1])
        THEN LET j == IdEnd(t, i + 2)
             IN  <<[k |-> "named", s |-> SubSeq(t, i + 1, j - 1)]>> \o Tokenize(t, j)
    ELSE IF i + 2 <= Len(t) /\ t[i + 1] = 123 /\ IsIdStart(t[i + 2])
            /\ IdEnd(t, i + 3) <= Len(t) /\ t[IdEnd(t, i + 3)] = 125
        THEN LET j == IdEnd(t, i + 3)
             IN  <<[k |-> "named", s |-> SubSeq(t, i + 2, j - 1)]>> \o Tokenize(t, j + 1)
    ELSE <<[k |-> "invalid", s |-> <<>>]>> \o Tokenize(t, i + 1)

\* the placeholder names of a tokenized template
Placeholders(toks) == {toks[i].s : i \in {j \in 1..Len(toks) : toks[j].k = "named"}}

RECURSIVE Fill(_, _, _)
\* Template.substitute over the tokens from position i on, with keyword arguments kw
Fill(toks, i, kw) ==
    IF i > Len(toks) THEN [err |-> "none", s |-> <<>>]
    ELSE IF toks[i].k = "invalid" THEN [err |-> "ValueError", s |-> <<>>]
    ELSE IF toks[i].k = "named" /\ toks[i].s \notin DOMAIN kw
        THEN [err |-> "KeyError", s |-> <<>>]
    ELSE LET rest == Fill(toks, i + 1, kw)
             here == IF toks[i].k = "named" THEN Str(kw[toks[i].s]) ELSE toks[i].s
         IN  IF rest.err # "none" THEN rest ELSE [err |-> "none", s |-> here \o rest.s]

(***************************************************************************)
(* formatters/models.py: the five record classes (pydantic models).        *)
(***************************************************************************)
StrField == [type |-> "str", gt |-> <<>>]
OptionalStrField == [type |-> "optstr", gt |-> <<>>]
\* Field(..., gt=bound) on an int
IntFieldGt(bound) == [type |-> "int", gt |-> <<bound>>]

BookModel ==
    [authors |-> StrField, title |-> StrField, edition |-> OptionalStrField,
     city |-> StrField, publishing_house |-> StrField,
     year |-> IntFieldGt(0), pages |-> IntFieldGt(0)]

InternetResourceModel ==
    [article |-> StrField, website |-> StrField, link |-> StrField, access_date |-> StrField]

ArticlesCollectionModel ==
    [authors |-> StrField, article_title |-> StrField, collection_title |-> StrField,
     city |-> StrField, publishing_house |-> StrField,
     year |-> IntFieldGt(0), pages |-> StrField]

JournalArticleModel ==
    [authors |-> StrField, article_title |-> StrField, journal_title |-> StrField,
     year |-> IntFieldGt(0), release |-> IntFieldGt(0), pages |-> StrField]

DissertationModel ==
    [author |-> StrField, title |-> StrField, degree |-> StrField, speciality |-> StrField,
     code |-> StrField, city |-> StrField,
     year |-> IntFieldGt(0), pages |-> IntFieldGt(0)]

\* a pydantic model that is none of the five: a record kind with no registered formatter
OtherModel == [title |-> StrField]

\* the field declarations of the class named cls
Schema(cls) ==
    CASE cls = "BookModel" -> BookModel
      [] cls = "InternetResourceModel" -> InternetResourceModel
      [] cls = "ArticlesCollectionModel" -> ArticlesCollectionModel
      [] cls = "JournalArticleModel" -> JournalArticleModel
      [] cls = "DissertationModel" -> DissertationModel
      [] OTHER -> OtherModel

\* a mutant of FieldGt: ge instead of gt
FieldGe(n, bound) == n >= bound

\* the gt constraint of Field
FieldGt(n, bound) == n > bound

\* one field's value passes its declaration
FieldValid(field, v) ==
    CASE field.type = "str" -> v.t = "str"
      [] field.type = "optstr" -> v.t \in {"str", "NoneType"}
      [] OTHER -> v.t = "int" /\ (field.gt = <<>> \/ FieldGt(v.n, field.gt[1]))

\* cls(**raw) succeeds; otherwise pydantic raises ValidationError
Validates(cls, raw) ==
    /\ DOMAIN Schema(cls) \subseteq DOMAIN raw
    /\ \A f \in DOMAIN Schema(cls) : FieldValid(Schema(cls)[f], raw[f])

(***************************************************************************)
(* Field values the inputs are drawn from.                                 *)
(***************************************************************************)

s_Ivanov == <<1048, 1074, 1072, 1085, 1086, 1074, 32, 1048, 46, 1052, 46>>  \* "Иванов И.М."
s_IvanovPetrov == <<1048, 1074, 1072, 1085, 1086, 1074, 32, 1048, 46, 1052, 46, 44, 32, 1055, 1077, 1090, 1088, 1086, 1074, 32, 1057, 46, 1053, 46>>  \* "Иванов И.М., Петров С.Н."
s_Nauka == <<1053, 1072, 1091, 1082, 1072>>  \* "Наука"
s_3e == <<51, 45, 1077>>  \* "3-е"
s_SPb == <<1057, 1055, 1073, 46>>  \* "СПб."
s_AST == <<1040, 1057, 1058>>  \* "АСТ"
s_Vedomosti == <<1042, 1077, 1076, 1086, 1084, 1086, 1089, 1090, 1080>>  \* "Ведомости"
s_Link == <<104, 116, 116, 112, 115, 58, 47, 47, 118, 46, 114, 117, 47>>  \* "https://v.ru/"
s_Date == <<48, 49, 46, 48, 49, 46, 50, 48, 50, 49>>  \* "01.01.2021"
s_Sbornik == <<1057, 1073, 1086, 1088, 1085, 1080, 1082>>  \* "Сборник"
s_Range == <<50, 53, 45, 51, 48>>  \* "25-30"
s_Journal == <<1054, 1073, 1088, 1072, 1079, 1086, 1074, 1072, 1085, 1080, 1077>>  \* "Образование"
s_Kand == <<1082, 1072, 1085, 1076, 46>>  \* "канд."
s_Ekon == <<1101, 1082, 1086, 1085, 46>>  \* "экон."
s_Code == <<48, 49, 46, 48, 49, 46, 48, 49>>  \* "01.01.01"

BookInputs ==
    {[authors |-> PStr(s_Ivanov), title |-> PStr(s_Nauka), edition |-> e, city |-> PStr(s_SPb),
      publishing_house |-> PStr(s_AST), year |-> PInt(y), pages |-> PInt(p)] :
        e \in {PNone, PStr(<<>>), PStr(s_3e)}, y \in {0, 2020}, p \in {-1, 999}}

InternetResourceInputs ==
    {[article |-> PStr(s_Nauka), website |-> PStr(s_Vedomosti), link |-> PStr(s_Link),
      access_date |-> PStr(s_Date)]}

ArticlesCollectionInputs ==
    {[authors |-> PStr(s_IvanovPetrov), article_title |-> PStr(s_Nauka),
      collection_title |-> PStr(s_Sbornik), city |-> PStr(s_SPb),
      publishing_house |-> PStr(s_AST), year |-> PInt(y), pages |-> PStr(s_Range)] :
        y \in {-5, 2020}}

JournalArticleInputs ==
    {[authors |-> PStr(a), article_title |-> PStr(s_Nauka), journal_title |-> PStr(s_Journal),
      year |-> PInt(y), release |-> PInt(r), pages |-> PStr(s_Range)] :
        a \in {s_Ivanov, s_IvanovPetrov}, y \in {0, 2020}, r \in {-1, 10}}

DissertationInputs ==
    {[author |-> PStr(s_Ivanov), title |-> PStr(s_Nauka), degree |-> PStr(s_Kand),
      speciality |-> PStr(s_Ekon), code |-> PStr(s_Code), city |-> PStr(s_SPb),
      year |-> PInt(y), pages |-> PInt(p)] :
        y \in {-1, 2020}, p \in {0, 199}}

OtherInputs == {[title |-> PStr(s_Nauka)]}

ClassNames ==
    {"BookModel", "InternetResourceModel", "ArticlesCollectionModel", "JournalArticleModel",
     "DissertationModel", "OtherModel"}

\* the keyword arguments tried for the constructor of cls
Inputs(cls) ==
    CASE cls = "BookModel" -> BookInputs
      [] cls = "InternetResourceModel" -> InternetResourceInputs
      [] cls = "ArticlesCollectionModel" -> ArticlesCollectionInputs
      [] cls = "JournalArticleModel" -> JournalArticleInputs
      [] cls = "DissertationModel" -> DissertationInputs
      [] OTHER -> OtherInputs

(***************************************************************************)
(* formatters/styles/gost.py: the five citation styles.                    *)
(***************************************************************************)
\* the keyword names passed to Template.substitute

kw_authors == <<97, 117, 116, 104, 111, 114, 115>>
kw_title == <<116, 105, 116, 108, 101>>
kw_edition == <<101, 100, 105, 116, 105, 111, 110>>
kw_city == <<99, 105, 116, 121>>
kw_publishing_house == <<112, 117, 98, 108, 105, 115, 104, 105, 110, 103, 95, 104, 111, 117, 115, 101>>
kw_year == <<121, 101, 97, 114>>
kw_pages == <<112, 97, 103, 101, 115>>
kw_article == <<97, 114, 116, 105, 99, 108, 101>>
kw_website == <<119, 101, 98, 115, 105, 116, 101>>
kw_link == <<108, 105, 110, 107>>
kw_access_date == <<97, 99, 99, 101, 115, 115, 95, 100, 97, 116, 101>>
kw_article_title == <<97, 114, 116, 105, 99, 108, 101, 95, 116, 105, 116, 108, 101>>
kw_collection_title == <<99, 111, 108, 108, 101, 99, 116, 105, 111, 110, 95, 116, 105, 116, 108, 101>>
kw_author == <<97, 117, 116, 104, 111, 114>>
kw_journal_title == <<106, 111, 117, 114, 110, 97, 108, 95, 116, 105, 116, 108, 101>>
kw_release == <<114, 101, 108, 101, 97, 115, 101>>
kw_degree == <<100, 101, 103, 114, 101, 101>>
kw_speciality == <<115, 112, 101, 99, 105, 97, 108, 105, 116, 121>>
kw_code == <<99, 111, 100, 101>>

\* "$authors $title. – $edition$city: $publishing_house, $year. – $pages с."
BookTemplateText ==
    <<36, 97, 117, 116, 104, 111, 114, 115, 32, 36, 116, 105, 116, 108, 101, 46, 32, 8211, 32, 36, 101, 100, 105, 116, 105, 111, 110, 36, 99, 105, 116, 121, 58, 32, 36, 112, 117, 98, 108, 105, 115, 104, 105, 110, 103, 95, 104, 111, 117, 115, 101, 44, 32, 36, 121, 101, 97, 114, 46, 32, 8211, 32, 36, 112, 97, 103, 101, 115, 32, 1089, 46>>

\* "$article // $website URL: $link (дата обращения: $access_date)."
InternetResourceTemplateText ==
    <<36, 97, 114, 116, 105, 99, 108, 101, 32, 47, 47, 32, 36, 119, 101, 98, 115, 105, 116, 101, 32, 85, 82, 76, 58, 32, 36, 108, 105, 110, 107, 32, 40, 1076, 1072, 1090, 1072, 32, 1086, 1073, 1088, 1072, 1097, 1077, 1085, 1080, 1103, 58, 32, 36, 97, 99, 99, 101, 115, 115, 95, 100, 97, 116, 101, 41, 46>>

\* "$authors $article_title // $collection_title. – $city: $publishing_house, $year. – С. $pages."
CollectionArticleTemplateText ==
    <<36, 97, 117, 116, 104, 111, 114, 115, 32, 36, 97, 114, 116, 105, 99, 108, 101, 95, 116, 105, 116, 108, 101, 32, 47, 47, 32, 36, 99, 111, 108, 108, 101, 99, 116, 105, 111, 110, 95, 116, 105, 116, 108, 101, 46, 32, 8211, 32, 36, 99, 105, 116, 121, 58, 32, 36, 112, 117, 98, 108, 105, 115, 104, 105, 110, 103, 95, 104, 111, 117, 115, 101, 44, 32, 36, 121, 101, 97, 114, 46, 32, 8211, 32, 1057, 46, 32, 36, 112, 97, 103, 101, 115, 46>>

\* "$author $article_title / $authors // $journal_title. – $year. – № $release. – С. $pages."
JournalArticleTemplateText ==
    <<36, 97, 117, 116, 104, 111, 114, 32, 36, 97, 114, 116, 105, 99, 108, 101, 95, 116, 105, 116, 108, 101, 32, 47, 32, 36, 97, 117, 116, 104, 111, 114, 115, 32, 47, 47, 32, 36, 106, 111, 117, 114, 110, 97, 108, 95, 116, 105, 116, 108, 101, 46, 32, 8211, 32, 36, 121, 101, 97, 114, 46, 32, 8211, 32, 8470, 32, 36, 114, 101, 108, 101, 97, 115, 101, 46, 32, 8211, 32, 1057, 46, 32, 36, 112, 97, 103, 101, 115, 46>>

\* "$author $title: $degree $speciality наук: $code / $author – $city, $year. – $pages с."
DissertationTemplateText ==
    <<36, 97, 117, 116, 104, 111, 114, 32, 36, 116, 105, 116, 108, 101, 58, 32, 36, 100, 101, 103, 114, 101, 101, 32, 36, 115, 112, 101, 99, 105, 97, 108, 105, 116, 121, 32, 1085, 1072, 1091, 1082, 58, 32, 36, 99, 111, 100, 101, 32, 47, 32, 36, 97, 117, 116, 104, 111, 114, 32, 8211, 32, 36, 99, 105, 116, 121, 44, 32, 36, 121, 101, 97, 114, 46, 32, 8211, 32, 36, 112, 97, 103, 101, 115, 32, 1089, 46>>

\* " изд. – "
EditionSuffix == <<32, 1080, 1079, 1076, 46, 32, 8211, 32>>

\* GOSTBook.template
BookTemplate == Tokenize(BookTemplateText, 1)

\* a mutant of get_edition: the clause is built whether or not edition is set
get_edition_always(data) == Str(data.f.edition) \o EditionSuffix

\* GOSTBook.get_edition
get_edition(data) ==
    IF Truthy(data.f.edition) THEN Str(data.f.edition) \o EditionSuffix ELSE <<>>

\* the keyword arguments of GOSTBook.substitute
BookKwargs(data) ==
    (kw_authors :> data.f.authors) @@ (kw_title :> data.f.title)
        @@ (kw_edition :> PStr(get_edition(data))) @@ (kw_city :> data.f.city)
        @@ (kw_publishing_house :> data.f.publishing_house)
        @@ (kw_year :> data.f.year) @@ (kw_pages :> data.f.pages)

\* GOSTInternetResource.template
InternetResourceTemplate == Tokenize(InternetResourceTemplateText, 1)

\* the keyword arguments of GOSTInternetResource.substitute
InternetResourceKwargs(data) ==
    (kw_article :> data.f.article) @@ (kw_website :> data.f.website)
        @@ (kw_link :> data.f.link) @@ (kw_access_date :> data.f.access_date)

\* GOSTCollectionArticle.template
CollectionArticleTemplate == Tokenize(CollectionArticleTemplateText, 1)

\* the keyword arguments of GOSTCollectionArticle.substitute
CollectionArticleKwargs(data) ==
    (kw_authors :> data.f.authors) @@ (kw_article_title :> data.f.article_title)
        @@ (kw_collection_title :> data.f.collection_title) @@ (kw_city :> data.f.city)
        @@ (kw_publishing_house :> data.f.publishing_house)
        @@ (kw_year :> data.f.year) @@ (kw_pages :> data.f.pages)

\* GOSTJournalArticle.template
JournalArticleTemplate == Tokenize(JournalArticleTemplateText, 1)

\* a mutant of get_author: the last author instead of the first
get_author_last(data) ==
    LET parts == Split(Str(data.f.authors), 44) IN parts[Len(parts)]

\* GOSTJournalArticle.get_author
get_author(data) ==
    IF Contains(data.f.authors.s, <<44>>)
    THEN Split(data.f.authors.s, 44)[1]
    ELSE data.f.authors.s

\* a mutant of JournalArticleKwargs: the release keyword is forgotten
JournalArticleKwargsNoRelease(data) ==
    (kw_author :> PStr(get_author(data))) @@ (kw_authors :> data.f.authors)
        @@ (kw_article_title :> data.f.article_title)
        @@ (kw_journal_title :> data.f.journal_title)
        @@ (kw_year :> data.f.year) @@ (kw_pages :> data.f.pages)

\* the keyword arguments of GOSTJournalArticle.substitute
JournalArticleKwargs(data) ==
    (kw_author :> PStr(get_author(data))) @@ (kw_authors :> data.f.authors)
        @@ (kw_article_title :> data.f.article_title)
        @@ (kw_journal_title :> data.f.journal_title)
        @@ (kw_year :> data.f.year) @@ (kw_release :> data.f.release)
        @@ (kw_pages :> data.f.pages)

\* GOSTDissertation.template
DissertationTemplate == Tokenize(DissertationTemplateText, 1)

\* the keyword arguments of GOSTDissertation.substitute
DissertationKwargs(data) ==
    (kw_author :> data.f.author) @@ (kw_title :> data.f.title)
        @@ (kw_degree :> data.f.degree) @@ (kw_speciality :> data.f.speciality)
        @@ (kw_code :> data.f.code) @@ (kw_city :> data.f.city)
        @@ (kw_year :> data.f.year) @@ (kw_pages :> data.f.pages)

\* the template property of each style
Template(style) ==
    CASE style = "GOSTBook" -> BookTemplate
      [] style = "GOSTInternetResource" -> InternetResourceTemplate
      [] style = "GOSTCollectionArticle" -> CollectionArticleTemplate
      [] style = "GOSTJournalArticle" -> JournalArticleTemplate
      [] OTHER -> DissertationTemplate

\* the keyword arguments each style's substitute passes
Kwargs(style, data) ==
    CASE style = "GOSTBook" -> BookKwargs(data)
      [] style = "GOSTInternetResource" -> InternetResourceKwargs(data)
      [] style = "GOSTCollectionArticle" -> CollectionArticleKwargs(data)
      [] style = "GOSTJournalArticle" -> JournalArticleKwargs(data)
      [] OTHER -> DissertationKwargs(data)

\* the attributes of self.data each style's substitute reads
DataAttrs(style) ==
    CASE style = "GOSTBook" ->
            {"authors", "title", "edition", "city", "publishing_house", "year", "pages"}
      [] style = "GOSTInternetResource" -> {"article", "website", "link", "access_date"}
      [] style = "GOSTCollectionArticle" ->
            {"authors", "article_title", "collection_title", "city", "publishing_house",
             "year", "pages"}
      [] style = "GOSTJournalArticle" ->
            {"authors", "article_title", "journal_title", "year", "release", "pages"}
      [] OTHER ->
            {"author", "title", "degree", "speciality", "code", "city", "year", "pages"}

\* style.substitute() on a formatter holding data: the string, or the exception raised
Substitute(style, data) ==
    IF ~(DataAttrs(style) \subseteq DOMAIN data.f)
    THEN [err |-> "AttributeError", s |-> <<>>]
    ELSE Fill(Template(style), 1, Kwargs(style, data))

\* a mutant of CallSubstitute: get_author overwrites data.authors with the first author
CallSubstituteShortening(self) ==
    [ret |-> Substitute(self.style, self.data),
     self |-> IF self.style = "GOSTJournalArticle" /\ "authors" \in DOMAIN self.data.f
              THEN [self EXCEPT !.data.f.authors = PStr(get_author(self.data))]
              ELSE self]

\* a call of self.substitute(): the value returned and the formatter after the call
CallSubstitute(self) == [ret |-> Substitute(self.style, self.data), self |-> self]

\* BaseCitationStyle.__init__(data): self.data = data; self.formatted = self.substitute().
\* id is the identity of the object made.
NewStyle(style, data, id) ==
    LET call == CallSubstitute([style |-> style, data |-> data, formatted |-> <<>>, id |-> id])
    IN  [err |-> call.ret.err, item |-> [call.self EXCEPT !.formatted = call.ret.s]]

(***************************************************************************)
(* GOSTCitationFormatter                                                   *)
(***************************************************************************)
\* a mutant of formatters_map: dissertations are given to GOSTBook
formatters_map_swapped ==
    [n \in {"BookModel", "InternetResourceModel", "ArticlesCollectionModel",
            "JournalArticleModel", "DissertationModel"} |->
        CASE n = "BookModel" -> "GOSTBook"
          [] n = "InternetResourceModel" -> "GOSTInternetResource"
          [] n = "ArticlesCollectionModel" -> "GOSTCollectionArticle"
          [] n = "JournalArticleModel" -> "GOSTJournalArticle"
          [] OTHER -> "GOSTBook"]

formatters_map ==
    [n \in {"BookModel", "InternetResourceModel", "ArticlesCollectionModel",
            "JournalArticleModel", "DissertationModel"} |->
        CASE n = "BookModel" -> "GOSTBook"
          [] n = "InternetResourceModel" -> "GOSTInternetResource"
          [] n = "ArticlesCollectionModel" -> "GOSTCollectionArticle"
          [] n = "JournalArticleModel" -> "GOSTJournalArticle"
          [] OTHER -> "GOSTDissertation"]

\* formatters_map.get(name): None for a name that is no key
MapGet(name) == IF name \in DOMAIN formatters_map THEN formatters_map[name] ELSE "None"

RECURSIVE InitLoopSkipping(_, _, _)
\* a mutant of InitLoop: a record with no registered formatter is skipped
InitLoopSkipping(ms, i, acc) ==
    IF i > Len(ms) THEN [err |-> "none", items |-> acc]
    ELSE IF MapGet(ms[i].cls) = "None" THEN InitLoopSkipping(ms, i + 1, acc)
    ELSE LET new == NewStyle(MapGet(ms[i].cls), ms[i], i)
         IN  IF new.err # "none" THEN [err |-> new.err, items |-> <<>>]
             ELSE InitLoopSkipping(ms, i + 1, Append(acc, new.item))

RECURSIVE InitLoop(_, _, _)
\* the loop of __init__ from models[i] on, acc being the local formatted_items.
\* Calling the None that .get returns raises TypeError.
InitLoop(ms, i, acc) ==
    IF i > Len(ms) THEN [err |-> "none", items |-> acc]
    ELSE IF MapGet(ms[i].cls) = "None" THEN [err |-> "TypeError", items |-> <<>>]
    ELSE LET new == NewStyle(MapGet(ms[i].cls), ms[i], i)
         IN  IF new.err # "none" THEN [err |-> new.err, items |-> <<>>]
             ELSE InitLoop(ms, i + 1, Append(acc, new.item))

\* a mutant of InsertSorted: x goes before the first item that is not smaller
InsertSortedBeforeEqual(sorted, x) ==
    LET later == {k \in 1..Len(sorted) : ~LexLess(sorted[k].formatted, x.formatted)}
        pos == IF later = {} THEN Len(sorted) + 1
               ELSE CHOOSE k \in later : \A j \in later : k <= j
    IN  SubSeq(sorted, 1, pos - 1) \o <<x>> \o SubSeq(sorted, pos, Len(sorted))

\* a mutant of InsertSorted: the comparison is turned round (a descending sort)
InsertSortedDescending(sorted, x) ==
    LET later == {k \in 1..Len(sorted) : LexLess(sorted[k].formatted, x.formatted)}
        pos == IF later = {} THEN Len(sorted) + 1
               ELSE CHOOSE k \in later : \A j \in later : k <= j
    IN  SubSeq(sorted, 1, pos - 1) \o <<x>> \o SubSeq(sorted, pos, Len(sorted))

\* one step of the stable sort: x goes before the first item whose key is greater
InsertSorted(sorted, x) ==
    LET later == {k \in 1..Len(sorted) : LexLess(x.formatted, sorted[k].formatted)}
        pos == IF later = {} THEN Len(sorted) + 1
               ELSE CHOOSE k \in later : \A j \in later : k <= j
    IN  SubSeq(sorted, 1, pos - 1) \o <<x>> \o SubSeq(sorted, pos, Len(sorted))

RECURSIVE SortFrom(_, _, _)
\* the insertion of items[i..] into the sorted list acc, in input order
SortFrom(items, i, acc) ==
    IF i > Len(items) THEN acc ELSE SortFrom(items, i + 1, InsertSorted(acc, items[i]))

\* a mutant of Sorted: the list is returned as it is
SortedNot(items) == items

\* sorted(items, key=lambda item: item.formatted)
Sorted(items) == SortFrom(items, 1, <<>>)

(***************************************************************************)
(* The program: records are constructed one by one into a list, the list   *)
(* is given to GOSTCitationFormatter, format() is called, and a formatter  *)
(* of the result may be asked to substitute() again.                       *)
(***************************************************************************)
NoCall == [id |-> 0, outs |-> <<>>]

Init ==
    /\ pc = "input"
    /\ models = <<>>
    /\ last = <<>>
    /\ err = "none"
    /\ formatted_items = <<>>
    /\ result = <<>>
    /\ resub = NoCall

\* cls(**raw) and, when it validates, models.append of the record
Construct(cls, raw) ==
    /\ pc = "input"
    /\ Len(models) < MaxModels
    /\ IF Validates(cls, raw)
       THEN /\ models' = Append(models, [cls |-> cls, f |-> raw])
            /\ UNCHANGED <<pc, last, err>>
       ELSE /\ pc' = "rejected"
            /\ err' = "ValidationError"
            /\ last' = <<[cls |-> cls, f |-> raw]>>
            /\ models' = <<>>
    /\ UNCHANGED <<formatted_items, result, resub>>

\* GOSTCitationFormatter(models)
NewFormatter ==
    /\ pc = "input"
    /\ LET init == InitLoop(models, 1, <<>>)
       IN  IF init.err = "none"
           THEN /\ formatted_items' = init.items
                /\ pc' = "ready"
                /\ UNCHANGED err
           ELSE /\ pc' = "failed"
                /\ err' = init.err
                /\ UNCHANGED formatted_items
    /\ UNCHANGED <<models, last, result, resub>>

\* GOSTCitationFormatter.format()
Format ==
    /\ pc = "ready"
    /\ result' = Sorted(formatted_items)
    /\ pc' = "formatted"
    /\ UNCHANGED <<models, last, err, formatted_items, resub>>

\* result[i].substitute(), called again by the caller
Resubstitute(i) ==
    /\ pc = "formatted"
    /\ i \in 1..Len(result)
    /\ resub.id \in {0, result[i].id}
    /\ Len(resub.outs) < MaxCalls
    /\ LET call == CallSubstitute(result[i])
       IN  /\ resub' = [id |-> result[i].id, outs |-> Append(resub.outs, call.ret)]
           /\ result' = [result EXCEPT ![i] = call.self]
           /\ formatted_items' =
                  [k \in 1..Len(formatted_items) |->
                      IF formatted_items[k].id = result[i].id THEN call.self
                      ELSE formatted_items[k]]
    /\ UNCHANGED <<pc, models, last, err>>

Next ==
    \/ \E cls \in ClassNames : \E raw \in Inputs(cls) : Construct(cls, raw)
    \/ NewFormatter
    \/ Format
    \/ \E i \in 1..MaxModels : Resubstitute(i)

Spec == Init /\ [][Next]_vars

(***************************************************************************)
(* Properties.                                                             *)
(***************************************************************************)
\* a <= b in the code-point order of str, stated without LexLess
StrLeq(a, b) ==
    \/ Len(a) <= Len(b) /\ SubSeq(b, 1, Len(a)) = a
    \/ \E k \in 1..Len(a) :
          /\ k <= Len(b)
          /\ SubSeq(a, 1, k - 1) = SubSeq(b, 1, k - 1)
          /\ a[k] < b[k]

\* the five record kinds that have a formatter, and the formatter of each
SupportedKinds ==
    {"BookModel", "InternetResourceModel", "ArticlesCollectionModel", "JournalArticleModel",
     "DissertationModel"}

StyleOfKind(cls) ==
    CASE cls = "BookModel" -> "GOSTBook"
      [] cls = "InternetResourceModel" -> "GOSTInternetResource"
      [] cls = "ArticlesCollectionModel" -> "GOSTCollectionArticle"
      [] cls = "JournalArticleModel" -> "GOSTJournalArticle"
      [] cls = "DissertationModel" -> "GOSTDissertation"
      [] OTHER -> "none"

HasUnsupported == \E i \in 1..Len(models) : models[i].cls \notin SupportedKinds

Constructed == pc \in {"ready", "formatted"}

\* the citation strings of a list of formatters
Strings(items) == [i \in 1..Len(items) |-> items[i].formatted]

AllDistinct(items) ==
    \A i, j \in 1..Len(items) : i # j => items[i].formatted # items[j].formatted

\* C1: the list returned by format() is in ascending code-point order of the
\* formatted strings: each entry is <= the entry after it.
C1_SortedAscending ==
    pc = "formatted" =>
        \A i \in 1..(Len(result) - 1) : StrLeq(result[i].formatted, result[i + 1].formatted)

\* three different citations that format() had to reorder
C1_Witness ==
    /\ pc = "formatted"
    /\ Len(result) = MaxModels
    /\ AllDistinct(result)
    /\ result[1].id = Len(result)

C3_PermutationInvariant ==
    (pc = "formatted" /\ resub = NoCall) =>
        \A p \in Permutations(1..Len(models)) :
            LET permuted == [i \in 1..Len(models) |-> models[p[i]]]
                init == InitLoop(permuted, 1, <<>>)
            IN  /\ init.err = "none"
                /\ Strings(Sorted(init.items)) = Strings(result)

\* three different citations given in descending order
C3_Witness ==
    /\ pc = "formatted"
    /\ resub = NoCall
    /\ Len(result) = 3
    /\ AllDistinct(result)
    /\ result[1].id = 3 /\ result[2].id = 2 /\ result[3].id = 1

\* "изд."
IzdText == <<1080, 1079, 1076, 46>>

\* ". – "
DotDash == <<46, 32, 8211, 32>>

\* C4: a Book's citation has the clause "<edition> изд. – " between the title
\* and the city when edition is set and not empty; when edition is None or
\* empty the citation has no "изд.", runs "<title>. – <city>: " and has no
\* double space.
C4_EditionClause ==
    \A i \in 1..Len(formatted_items) :
        LET item == formatted_items[i]
            d == item.data.f
        IN  item.style = "GOSTBook" =>
                IF d.edition.t = "str" /\ d.edition.s # <<>>
                THEN Contains(item.formatted,
                        d.title.s \o DotDash \o d.edition.s \o EditionSuffix \o d.city.s
                            \o <<58, 32>>)
                ELSE /\ ~Contains(item.formatted, IzdText)
                     /\ Contains(item.formatted, d.title.s \o DotDash \o d.city.s \o <<58, 32>>)
                     /\ ~Contains(item.formatted, <<32, 32>>)

\* books with edition None, empty and set, formatted in one batch
C4_Witness ==
    /\ Constructed
    /\ Len(formatted_items) = 3
    /\ formatted_items[1].style = "GOSTBook" /\ formatted_items[1].data.f.edition = PNone
    /\ formatted_items[2].style = "GOSTBook" /\ formatted_items[2].data.f.edition = PStr(<<>>)
    /\ formatted_items[3].style = "GOSTBook" /\ Truthy(formatted_items[3].data.f.edition)

\* the part of authors before its first comma, authors itself when it has none
FirstAuthor(authors) ==
    IF \E k \in 1..Len(authors) : authors[k] = 44
    THEN LET k == CHOOSE k \in 1..Len(authors) :
                      authors[k] = 44 /\ \A j \in 1..(k - 1) : authors[j] # 44
         IN  SubSeq(authors, 1, k - 1)
    ELSE authors

\* C5: a JournalArticle's citation starts with the first author (authors up to
\* its first comma, or all of authors when it has no comma), and the later
\* $authors placeholder holds the full authors string.
C5_FirstAuthor ==
    \A i \in 1..Len(formatted_items) :
        LET item == formatted_items[i]
            d == item.data.f
        IN  item.style = "GOSTJournalArticle" =>
                StartsWith(item.formatted,
                    FirstAuthor(d.authors.s) \o <<32>> \o d.article_title.s \o <<32, 47, 32>>
                        \o d.authors.s \o <<32, 47, 47, 32>> \o d.journal_title.s)

\* a journal article with two authors next to one with a single author
C5_Witness ==
    /\ Constructed
    /\ \E i, j \in 1..Len(formatted_items) :
          /\ formatted_items[i].style = "GOSTJournalArticle"
          /\ Contains(formatted_items[i].data.f.authors.s, <<44>>)
          /\ formatted_items[j].style = "GOSTJournalArticle"
          /\ ~Contains(formatted_items[j].data.f.authors.s, <<44>>)

Constrained(cls) ==
    CASE cls = "BookModel" -> {"year", "pages"}
      [] cls = "ArticlesCollectionModel" -> {"year"}
      [] cls = "JournalArticleModel" -> {"year", "release"}
      [] cls = "DissertationModel" -> {"year", "pages"}
      [] OTHER -> {}

AllPositive(m) == \A f \in Constrained(m.cls) : m.f[f].n > 0

\* C7: a construction is rejected exactly when a constrained numeric field is
\* <= 0: every record that enters the list or reaches a formatter has all of
\* them > 0, and a rejected construction had one that is <= 0.
C7_PositiveFields ==
    /\ \A i \in 1..Len(models) : AllPositive(models[i])
    /\ \A i \in 1..Len(formatted_items) : AllPositive(formatted_items[i].data)
    /\ pc = "rejected" => err = "ValidationError" /\ ~AllPositive(last[1])
    /\ pc # "rejected" => last = <<>>

\* a journal article with release <= 0 and a valid year is rejected
C7_Witness ==
    /\ pc = "rejected"
    /\ last[1].cls = "JournalArticleModel"
    /\ last[1].f.release.n <= 0
    /\ last[1].f.year.n > 0

\* C8: formatters with equal citation strings are returned in the order their
\* records had in the input.
C8_Stable ==
    pc = "formatted" =>
        \A i, j \in 1..Len(result) :
            (i < j /\ result[i].formatted = result[j].formatted) =>
                result[i].id < result[j].id

\* two different books with the same citation, after a record that sorts behind them
C8_Witness ==
    /\ pc = "formatted"
    /\ Len(result) = 3
    /\ result[1].formatted = result[2].formatted
    /\ result[1].data # result[2].data
    /\ result[3].id = 1

\* C9: every record of a supported kind gets the formatter of its own kind, and
\* the list returned is a permutation of the per-record results: as many entries
\* as records, each record once, formatted by its own kind's template.
C9_DispatchAndPermutation ==
    /\ pc = "failed" => HasUnsupported
    /\ Constructed =>
          /\ Len(formatted_items) = Len(models)
          /\ \A i \in 1..Len(formatted_items) :
                /\ formatted_items[i].id = i
                /\ formatted_items[i].data = models[i]
                /\ formatted_items[i].style = StyleOfKind(models[i].cls)
                /\ formatted_items[i].formatted
                      = Fill(Template(StyleOfKind(models[i].cls)), 1,
                             Kwargs(StyleOfKind(models[i].cls), models[i])).s
    /\ pc = "formatted" =>
          /\ Len(result) = Len(models)
          /\ {result[i].id : i \in 1..Len(result)} = 1..Len(models)
          /\ \A i \in 1..Len(result) : result[i] = formatted_items[result[i].id]

\* a dissertation, an internet resource and a collection article in one batch
C9_Witness ==
    /\ pc = "formatted"
    /\ {result[i].style : i \in 1..Len(result)}
          = {"GOSTDissertation", "GOSTInternetResource", "GOSTCollectionArticle"}

\* C10: substitution never fails on a placeholder: every placeholder of a
\* style's template is among the keyword arguments its substitute passes, so
\* neither construction nor a repeated substitute() raises KeyError or
\* ValueError.
C10_NoFormattingError ==
    /\ err \notin {"KeyError", "ValueError"}
    /\ \A k \in 1..Len(resub.outs) : resub.outs[k].err = "none"
    /\ \A i \in 1..Len(formatted_items) :
          LET item == formatted_items[i]
          IN  /\ Placeholders(Template(item.style)) \subseteq DOMAIN Kwargs(item.style, item.data)
              /\ \A t \in 1..Len(Template(item.style)) : Template(item.style)[t].k # "invalid"

\* a journal article and a dissertation were formatted
C10_Witness ==
    /\ pc = "ready"
    /\ \E i, j \in 1..Len(formatted_items) :
          /\ formatted_items[i].style = "GOSTJournalArticle"
          /\ formatted_items[j].style = "GOSTDissertation"

====
